---- MODULE Spec2Model ----
(***************************************************************************)
(* The binary event-trace recorder of the traced Minisat (class Tracer)    *)
(* and the process that owns it (main of minisat/simp/Main.cc).            *)
(*                                                                         *)
(* The repository holds two copies of the class: minisat/core/Tracer.hpp   *)
(* (the one Main.cc links through SimpSolver.h) and a standalone header    *)
(* (src/unnamed/part_000) meant for other solvers.  Their trace(),         *)
(* traceLiteral(), writeToHeader(), writeHeader(), writeDummyHeader() and  *)
(* setTraceFile() are textually identical; traceRestart() differs in form  *)
(* and is modelled once per copy.                                          *)
(*                                                                         *)
(* Modelling decisions:                                                    *)
(*  - the trace file is a sequence of bytes (0..255); an int32 is written  *)
(*    as its 4 raw bytes, two's complement, little-endian;                 *)
(*  - tracer.traceFile is the logical content of the ofstream (what is on  *)
(*    disk plus what still sits in the stream buffer).  The moment the     *)
(*    buffer is flushed never influences the program, so what is on disk   *)
(*    when the process dies without closing the stream is any prefix of    *)
(*    the logical content (OnDisk);                                        *)
(*  - assert() is modelled as compiled in: a failed assertion aborts the   *)
(*    process at that statement (no destructor runs, nothing is flushed);  *)
(*  - the solver that calls the recording operations is not part of the    *)
(*    sources: the caller may issue any recording call while the tracer    *)
(*    is alive.                                                            *)
(***************************************************************************)
EXTENDS Integers, Sequences, FiniteSets

VARIABLES
    pc,            \* position of the owning process
    tracer,        \* the Tracer object: its fields and its two files
    last,          \* history: the most recent step (operation, arguments, outcome)
    accLevel,      \* history: level argument of the most recent accepted push/backtrack
    nCalls,        \* history: number of recording calls issued
    restartCalls,  \* history: number of traceRestart calls issued
    reserved,      \* history: length of the trace file when the constructor returned
    calls,         \* history: the accepted recording calls, in call order
    snapshotCalls  \* history: number of writeSimplifiedInstance calls issued

vars == <<pc, tracer, last, accLevel, nCalls, restartCalls, reserved, calls,
          snapshotCalls>>

(***************************************************************************)
(* Bounds of the exploration.                                              *)
(***************************************************************************)
MaxCalls == 3        \* recording calls per tracer with a generic owner
MaxMainCalls == 2    \* recording calls per run of main
MaxLevel == 2        \* largest level argument a caller passes
MaxVar == 12         \* the variable ids 1 .. MaxVar are encoded one by one
MaxSnapshotCalls == 2   \* recording calls of the owner that writes a snapshot
MaxSnapshotWrites == 2  \* writeSimplifiedInstance calls of one owner
MaxFaultCalls == 2      \* recording calls of the owner whose storage fails

(***************************************************************************)
(* Program constants.                                                      *)
(***************************************************************************)
TagBacktrack == 60   \* '<'
TagNewLevel == 62    \* '>'
TagBranch == 66      \* 'B'
TagSetVariable == 43 \* '+'
TagConflict == 67    \* 'C'
TagRestart == 82     \* 'R'
TagLearnt == 76      \* 'L'
TagSize == 83        \* 'S'
TagClauseLit == 120  \* 'x'
TagUnlearnt == 85    \* 'U'
SizeofInt32 == 4     \* sizeof(int32_t)
EventAlign == 5      \* the 5 of writeHeader: one label byte + sizeof(int32_t)
DummyRestarts == -1  \* the numberOfRestarts writeDummyHeader passes

(***************************************************************************)
(* Inputs of the callers.                                                  *)
(***************************************************************************)
Levels == -1 .. MaxLevel
Lit(v, n) == [variable |-> v, negated |-> n]
Literals == {Lit(1, FALSE), Lit(2, TRUE)}
ClauseIds == {7, 9}
\* the variable ids whose literals are encoded one by one: the small ones and
\* the ones at the byte boundaries of an int32
LiteralVars ==
    (1 .. MaxVar) \cup {127, 128, 255, 256, 65535, 65536, 16777215, 16777216,
                        2147483647}
\* the (clause_id, clause) arguments of traceLearntClause: the empty clause,
\* a unit clause, the same two literals in both orders, a repeated literal
LearntArgs ==
    { <<7, <<>> >>, <<9, <<Lit(1, FALSE)>> >>,
      <<7, <<Lit(1, FALSE), Lit(2, TRUE)>> >>,
      <<9, <<Lit(2, TRUE), Lit(1, FALSE)>> >>,
      <<7, <<Lit(2, TRUE), Lit(2, TRUE)>> >> }

(***************************************************************************)
(* Bytes.                                                                  *)
(***************************************************************************)
\* reinterpret_cast<const char *>(&data), sizeof(data): the 4 bytes of an int32.
\* For data < 0 the unsigned value is data + 2^32; its low 31 bits are
\* data + 2^31 and its top bit is set.
RawBytes(data) ==
    LET u == IF data >= 0 THEN data ELSE (data + 2147483647) + 1
        top == IF data >= 0 THEN 0 ELSE 128
    IN  << u % 256, (u \div 256) % 256, (u \div 65536) % 256,
           ((u \div 16777216) % 128) + top >>

\* ofstream::write at the put position pos (0-based) of a file: overwrites
\* the bytes that exist and extends the file by the others.
WriteAt(file, pos, bytes) ==
    LET n == IF Len(file) > pos + Len(bytes) THEN Len(file) ELSE pos + Len(bytes)
    IN  [i \in 1 .. n |->
            IF i > pos /\ i <= pos + Len(bytes) THEN bytes[i - pos]
            ELSE IF i <= Len(file) THEN file[i] ELSE 0]

(***************************************************************************)
(* class Tracer.  Every member function is an operator from the object     *)
(* before the call to the object after it.  failed marks that an assert    *)
(* of the call was violated: the process aborted at that statement and     *)
(* the rest of the call did not run.                                       *)
(***************************************************************************)
\* trace with the push assertion weakened to data >= levelForAssert + 1
trace_PushAtLeast(t, label, data) ==
    LET pushBad == label = TagNewLevel /\ ~(data >= t.levelForAssert + 1)
        backBad == label = TagBacktrack /\ ~(data < t.levelForAssert \/ data = 0)
        t2 == IF label \in {TagNewLevel, TagBacktrack}
              THEN [t EXCEPT !.levelForAssert = data] ELSE t
    IN  IF t.failed THEN t
        ELSE IF pushBad \/ backBad THEN [t EXCEPT !.failed = TRUE]
        ELSE [t2 EXCEPT !.traceFile = (@ \o <<label>>) \o RawBytes(data)]

\* trace with the backtrack assertion lacking its "|| data == 0"
trace_StrictBacktrack(t, label, data) ==
    LET pushBad == label = TagNewLevel /\ ~(data = t.levelForAssert + 1)
        backBad == label = TagBacktrack /\ ~(data < t.levelForAssert)
        t2 == IF label \in {TagNewLevel, TagBacktrack}
              THEN [t EXCEPT !.levelForAssert = data] ELSE t
    IN  IF t.failed THEN t
        ELSE IF pushBad \/ backBad THEN [t EXCEPT !.failed = TRUE]
        ELSE [t2 EXCEPT !.traceFile = (@ \o <<label>>) \o RawBytes(data)]

\* trace whose backtrack assertion reads data <= levelForAssert
trace_BacktrackAtMost(t, label, data) ==
    LET pushBad == label = TagNewLevel /\ ~(data = t.levelForAssert + 1)
        backBad == label = TagBacktrack /\ ~(data <= t.levelForAssert \/ data = 0)
        t2 == IF label \in {TagNewLevel, TagBacktrack}
              THEN [t EXCEPT !.levelForAssert = data] ELSE t
    IN  IF t.failed THEN t
        ELSE IF pushBad \/ backBad THEN [t EXCEPT !.failed = TRUE]
        ELSE [t2 EXCEPT !.traceFile = (@ \o <<label>>) \o RawBytes(data)]

\* trace with the two writes moved in front of the level checks
trace_WriteFirst(t, label, data) ==
    LET pushBad == label = TagNewLevel /\ ~(data = t.levelForAssert + 1)
        backBad == label = TagBacktrack /\ ~(data < t.levelForAssert \/ data = 0)
        t1 == [t EXCEPT !.traceFile = (@ \o <<label>>) \o RawBytes(data)]
    IN  IF t.failed THEN t
        ELSE IF pushBad \/ backBad THEN [t1 EXCEPT !.failed = TRUE]
        ELSE IF label \in {TagNewLevel, TagBacktrack}
             THEN [t1 EXCEPT !.levelForAssert = data]
        ELSE t1

\* Tracer::trace; a write to a stream in a failed state writes nothing and
\* reports nothing
trace(t, label, data) ==
    LET pushBad == label = TagNewLevel /\ ~(data = t.levelForAssert + 1)
        t1 == IF label = TagNewLevel /\ ~pushBad
              THEN [t EXCEPT !.levelForAssert = data] ELSE t
        backBad == label = TagBacktrack /\ ~(data < t1.levelForAssert \/ data = 0)
        t2 == IF label = TagBacktrack /\ ~backBad
              THEN [t1 EXCEPT !.levelForAssert = data] ELSE t1
    IN  IF t.failed THEN t
        ELSE IF pushBad THEN [t EXCEPT !.failed = TRUE]
        ELSE IF backBad THEN [t1 EXCEPT !.failed = TRUE]
        ELSE IF t.traceBad THEN t2
        ELSE [t2 EXCEPT !.traceFile =
                 WriteAt(WriteAt(@, Len(@), <<label>>), Len(@) + 1, RawBytes(data))]

\* traceLiteral with the two branches of its conditional swapped
traceLiteral_SignSwapped(t, label, literal) ==
    trace(t, label, IF literal.negated THEN literal.variable ELSE 0 - literal.variable)

\* Tracer::traceLiteral
traceLiteral(t, label, literal) ==
    trace(t, label, IF literal.negated THEN 0 - literal.variable ELSE literal.variable)

\* Tracer::traceBacktrack
traceBacktrack(t, level) == trace(t, TagBacktrack, level)

\* Tracer::traceNewDecisionLevel
traceNewDecisionLevel(t, level) == trace(t, TagNewLevel, level)

\* Tracer::traceBranch
traceBranch(t, literal) == traceLiteral(t, TagBranch, literal)

\* Tracer::traceSetVariable
traceSetVariable(t, literal) == traceLiteral(t, TagSetVariable, literal)

\* traceConflict that carries the label of traceSetVariable
traceConflict_LabelOfSetVariable(t, literal) == traceLiteral(t, TagSetVariable, literal)

\* Tracer::traceConflict
traceConflict(t, literal) == traceLiteral(t, TagConflict, literal)

\* traceRestart that also takes the cursor back to the root level
traceRestart_ResetLevel(t) ==
    LET arg == t.m_currentRestarts
        t1 == [t EXCEPT !.m_currentRestarts = @ + 1, !.levelForAssert = 0]
    IN  trace(t1, TagRestart, arg)

\* Tracer::traceRestart of the standalone header: trace('R', m_currentRestarts++)
traceRestart(t) ==
    LET arg == t.m_currentRestarts
        t1 == [t EXCEPT !.m_currentRestarts = @ + 1]
    IN  trace(t1, TagRestart, arg)

\* traceRestart that increments before it records
traceRestartCore_PreIncrement(t) ==
    LET t1 == [t EXCEPT !.m_currentRestarts = @ + 1]
    IN  trace(t1, TagRestart, t1.m_currentRestarts)

\* Tracer::traceRestart of minisat/core/Tracer.hpp:
\* trace('R', m_currentRestarts); ++m_currentRestarts;
traceRestartCore(t) ==
    LET t1 == trace(t, TagRestart, t.m_currentRestarts)
    IN  [t1 EXCEPT !.m_currentRestarts = @ + 1]

RECURSIVE traceClauseLiterals(_, _, _)
\* the for loop of Tracer::traceLearntClause, from literal i on
traceClauseLiterals(t, clause, i) ==
    IF i > Len(clause) THEN t
    ELSE traceClauseLiterals(traceLiteral(t, TagClauseLit, clause[i]), clause, i + 1)

\* traceLearntClause that walks the clause from its last literal to its first
traceLearntClause_Reversed(t, clause_id, clause) ==
    LET t1 == trace(t, TagLearnt, clause_id)
        t2 == trace(t1, TagSize, Len(clause))
        rev == [i \in 1 .. Len(clause) |-> clause[Len(clause) + 1 - i]]
    IN  traceClauseLiterals(t2, rev, 1)

\* Tracer::traceLearntClause
traceLearntClause(t, clause_id, clause) ==
    LET t1 == trace(t, TagLearnt, clause_id)
        t2 == trace(t1, TagSize, Len(clause))
    IN  traceClauseLiterals(t2, clause, 1)

\* Tracer::traceUnlearntClause
traceUnlearntClause(t, clause_id) == trace(t, TagUnlearnt, clause_id)

\* writeToHeader without its seekp: the write lands at the end of the file
writeToHeader_NoSeek(file, dryRun, data, position) ==
    [file |-> IF ~dryRun THEN file \o RawBytes(data) ELSE file,
     position |-> position + SizeofInt32]

\* Tracer::writeToHeader: the file and the position after the call
writeToHeader(file, dryRun, data, position) ==
    [file |-> IF ~dryRun THEN WriteAt(file, position, RawBytes(data)) ELSE file,
     position |-> position + SizeofInt32]

\* writeHeader that does not round headerSize up to the event size
writeHeader_NoPadding(t, dryRun, numberOfRestarts) ==
    LET headerSize == SizeofInt32 + SizeofInt32
        w1 == writeToHeader(t.traceFile, dryRun, headerSize, 0)
        w2 == writeToHeader(w1.file, dryRun, numberOfRestarts, w1.position)
    IN  [t |-> IF dryRun THEN t
               ELSE [t EXCEPT !.traceFile = w2.file, !.traceOpen = FALSE],
         headerSize |-> headerSize]

\* Tracer::writeHeader: the object after the call and the value returned
writeHeader(t, dryRun, numberOfRestarts) ==
    LET raw == SizeofInt32 + SizeofInt32
        headerSize == IF raw % EventAlign # 0
                      THEN raw + (EventAlign - (raw % EventAlign)) ELSE raw
        w1 == writeToHeader(t.traceFile, dryRun, headerSize, 0)
        w2 == writeToHeader(w1.file, dryRun, numberOfRestarts, w1.position)
        tellp == w1.position + SizeofInt32
        bad == ~(headerSize >= w2.position) \/ (~dryRun /\ ~(w2.position = tellp))
    IN  [t |-> IF bad THEN [t EXCEPT !.failed = TRUE, !.traceFile = w2.file]
               ELSE IF dryRun THEN t
               ELSE [t EXCEPT !.traceFile = w2.file, !.traceOpen = FALSE],
         headerSize |-> headerSize]

\* writeDummyHeader whose loop runs while i <= headerSize
writeDummyHeader_OffByOne(t) ==
    LET headerSize == writeHeader(t, TRUE, DummyRestarts).headerSize
    IN  [t EXCEPT !.traceFile = @ \o [i \in 1 .. headerSize + 1 |-> 0]]

\* Tracer::writeDummyHeader
writeDummyHeader(t) ==
    LET headerSize == writeHeader(t, TRUE, DummyRestarts).headerSize
    IN  [t EXCEPT !.traceFile = @ \o [i \in 1 .. headerSize |-> 0]]

\* setTraceFile that opens the file and reserves nothing
setTraceFile_NoDummy(t) == [t EXCEPT !.traceFile = <<>>, !.traceOpen = TRUE]

\* Tracer::setTraceFile
setTraceFile(t) ==
    writeDummyHeader([t EXCEPT !.traceFile = <<>>, !.traceOpen = TRUE])

(***************************************************************************)
(* The snapshot file is text: a sequence of one-character strings.         *)
(***************************************************************************)
Digits == <<"0", "1", "2", "3", "4", "5", "6", "7", "8", "9">>

Newline == <<"\n">>

\* operator<< of an ostream for a non-negative int: decimal, no padding
RECURSIVE Decimal(_)
Decimal(n) ==
    IF n < 10 THEN <<Digits[n + 1]>>
    ELSE Decimal(n \div 10) \o <<Digits[(n % 10) + 1]>>

\* operator<< of an ostream for an int
SignedDecimal(n) == IF n < 0 THEN <<"-">> \o Decimal(-n) ELSE Decimal(n)

\* the instance name the constructor is given
InstanceName == <<"a", ".", "c", "n", "f">>

\* the literal "c Simplified from "
SimplifiedFrom ==
    <<"c", " ", "S", "i", "m", "p", "l", "i", "f", "i", "e", "d", " ",
      "f", "r", "o", "m", " ">>

\* Tracer::setSimplifiedFile
setSimplifiedFile(t) ==
    [t EXCEPT !.simplifiedFile = SimplifiedFrom \o InstanceName \o Newline,
              !.simplifiedOpen = TRUE]

\* a literal written without its sign
snapshotLiteral_NoSign(literal) == Decimal(literal.variable) \o <<" ">>

\* one literal of a clause line: (negated ? "-" : "") << variable << " "
snapshotLiteral(literal) ==
    (IF literal.negated THEN <<"-">> ELSE <<>>)
        \o SignedDecimal(literal.variable) \o <<" ">>

\* the inner loop of writeSimplifiedInstance and the "0" that ends the line
RECURSIVE snapshotClause(_, _)
snapshotClause(clause, i) ==
    IF i > Len(clause) THEN <<"0">> \o Newline
    ELSE snapshotLiteral(clause[i]) \o snapshotClause(clause, i + 1)

\* the outer loop of writeSimplifiedInstance
RECURSIVE snapshotClauses(_, _)
snapshotClauses(instance, i) ==
    IF i > Len(instance) THEN <<>>
    ELSE snapshotClause(instance[i], 1) \o snapshotClauses(instance, i + 1)

\* writeSimplifiedInstance that writes its summary line to the trace stream
writeSimplifiedInstance_WrongStream(t, instance, numVars) ==
    [t EXCEPT !.traceFile = @ \o <<112, 32>>,
              !.simplifiedFile = @ \o snapshotClauses(instance, 1),
              !.simplifiedOpen = FALSE]

\* writeSimplifiedInstance that leaves the stream open
writeSimplifiedInstance_NoClose(t, instance, numVars) ==
    [t EXCEPT !.simplifiedFile =
                  @ \o <<"p", " ">> \o SignedDecimal(numVars) \o <<" ">>
                    \o Decimal(Len(instance)) \o Newline
                    \o snapshotClauses(instance, 1)]

\* Tracer::writeSimplifiedInstance; on a stream that is not open every
\* insertion fails and the file is left as it is
writeSimplifiedInstance(t, instance, numVars) ==
    IF ~t.simplifiedOpen THEN t
    ELSE [t EXCEPT !.simplifiedFile =
                       @ \o <<"p", " ">> \o SignedDecimal(numVars) \o <<" ">>
                         \o Decimal(Len(instance)) \o Newline
                         \o snapshotClauses(instance, 1),
                   !.simplifiedOpen = FALSE]

\* the object before its constructor ran: the member initialisers
NoTracer ==
    [traceFile |-> <<>>, traceOpen |-> FALSE, traceBad |-> FALSE,
     simplifiedFile |-> <<>>, simplifiedOpen |-> FALSE,
     levelForAssert |-> 0, m_currentRestarts |-> 0, failed |-> FALSE]

\* Tracer::Tracer
TracerCtor == setSimplifiedFile(setTraceFile(NoTracer))

\* a destructor that hands writeHeader the level cursor for the restart count
TracerDtor_WrongField(t) == writeHeader(t, FALSE, t.levelForAssert).t

\* Tracer::~Tracer
TracerDtor(t) == writeHeader(t, FALSE, t.m_currentRestarts).t

(***************************************************************************)
(* The owning process.                                                     *)
(***************************************************************************)
NoCall ==
    [op |-> "none", ok |-> TRUE, level |-> 0, id |-> 0,
     literal |-> Lit(1, FALSE), clause |-> <<>>,
     instance |-> <<>>, numVars |-> 0]

\* the call sequence of the end-to-end scenario: push(1), branch(5, false),
\* setVariable(3, true), conflict(5, false), backtrack(0), restart
ScenarioScript ==
    << [NoCall EXCEPT !.op = "push", !.level = 1],
       [NoCall EXCEPT !.op = "branch", !.literal = Lit(5, FALSE)],
       [NoCall EXCEPT !.op = "setVariable", !.literal = Lit(3, TRUE)],
       [NoCall EXCEPT !.op = "conflict", !.literal = Lit(5, FALSE)],
       [NoCall EXCEPT !.op = "backtrack", !.level = 0],
       [NoCall EXCEPT !.op = "restart"] >>

Live ==
    {"tracing", "parse", "eliminate", "solve", "interrupted", "scenario",
     "snapshot", "faulty"}

CallBound ==
    IF pc = "tracing" THEN MaxCalls
    ELSE IF pc = "scenario" THEN Len(ScenarioScript)
    ELSE IF pc = "snapshot" THEN MaxSnapshotCalls
    ELSE IF pc = "faulty" THEN MaxFaultCalls
    ELSE MaxMainCalls

\* a recording call op of the solver that takes the object to t
Call(op, t) ==
    /\ pc \in Live
    /\ nCalls < CallBound
    /\ tracer' = t
    /\ pc' = IF t.failed THEN "aborted" ELSE pc
    /\ last' = [op EXCEPT !.ok = ~t.failed]
    /\ nCalls' = nCalls + 1
    /\ calls' = IF t.failed THEN calls ELSE Append(calls, op)
    /\ UNCHANGED <<reserved, snapshotCalls>>

Init ==
    /\ pc = "start"
    /\ tracer = NoTracer
    /\ last = NoCall
    /\ accLevel = 0
    /\ nCalls = 0
    /\ restartCalls = 0
    /\ reserved = 0
    /\ calls = <<>>
    /\ snapshotCalls = 0

\* a generic owner constructs the tracer
Construct ==
    /\ pc = "start"
    /\ tracer' = TracerCtor
    /\ pc' = "tracing"
    /\ last' = [NoCall EXCEPT !.op = "construct"]
    /\ reserved' = Len(tracer'.traceFile)
    /\ UNCHANGED <<accLevel, nCalls, restartCalls, calls, snapshotCalls>>

NewDecisionLevel ==
    \E level \in Levels :
        LET t == traceNewDecisionLevel(tracer, level) IN
        /\ Call([NoCall EXCEPT !.op = "push", !.level = level], t)
        /\ accLevel' = IF t.failed THEN accLevel ELSE level
        /\ UNCHANGED restartCalls

Backtrack ==
    \E level \in Levels :
        LET t == traceBacktrack(tracer, level) IN
        /\ Call([NoCall EXCEPT !.op = "backtrack", !.level = level], t)
        /\ accLevel' = IF t.failed THEN accLevel ELSE level
        /\ UNCHANGED restartCalls

Branch ==
    \E literal \in Literals :
        /\ Call([NoCall EXCEPT !.op = "branch", !.literal = literal],
                traceBranch(tracer, literal))
        /\ UNCHANGED <<accLevel, restartCalls>>

SetVariable ==
    \E literal \in Literals :
        /\ Call([NoCall EXCEPT !.op = "setVariable", !.literal = literal],
                traceSetVariable(tracer, literal))
        /\ UNCHANGED <<accLevel, restartCalls>>

Conflict ==
    \E literal \in Literals :
        /\ Call([NoCall EXCEPT !.op = "conflict", !.literal = literal],
                traceConflict(tracer, literal))
        /\ UNCHANGED <<accLevel, restartCalls>>

\* the copy of the class in use decides which traceRestart runs
Restart ==
    /\ \/ Call([NoCall EXCEPT !.op = "restart"], traceRestart(tracer))
       \/ Call([NoCall EXCEPT !.op = "restart"], traceRestartCore(tracer))
    /\ restartCalls' = restartCalls + 1
    /\ UNCHANGED accLevel

LearntClause ==
    \E a \in LearntArgs :
        /\ Call([NoCall EXCEPT !.op = "learnt", !.id = a[1], !.clause = a[2]],
                traceLearntClause(tracer, a[1], a[2]))
        /\ UNCHANGED <<accLevel, restartCalls>>

UnlearntClause ==
    \E clause_id \in ClauseIds :
        /\ Call([NoCall EXCEPT !.op = "unlearnt", !.id = clause_id],
                traceUnlearntClause(tracer, clause_id))
        /\ UNCHANGED <<accLevel, restartCalls>>

Recording ==
    \/ NewDecisionLevel
    \/ Backtrack
    \/ Branch
    \/ SetVariable
    \/ Conflict
    \/ Restart
    \/ LearntClause
    \/ UnlearntClause

\* a generic owner destroys the tracer
Destroy ==
    /\ pc = "tracing"
    /\ tracer' = TracerDtor(tracer)
    /\ pc' = "destroyed"
    /\ last' = [NoCall EXCEPT !.op = "destroy"]
    /\ UNCHANGED <<accLevel, nCalls, restartCalls, reserved, calls, snapshotCalls>>

Next == Construct \/ Recording \/ Destroy

Spec == Init /\ [][Next]_vars

(***************************************************************************)
(* An owner that runs the end-to-end scenario: it constructs the tracer,   *)
(* issues the calls of ScenarioScript in order and destroys the tracer.    *)
(***************************************************************************)
\* the objects the call c can leave behind (one per copy of the class)
Perform(t, c) ==
    CASE c.op = "push" -> {traceNewDecisionLevel(t, c.level)}
      [] c.op = "backtrack" -> {traceBacktrack(t, c.level)}
      [] c.op = "branch" -> {traceBranch(t, c.literal)}
      [] c.op = "setVariable" -> {traceSetVariable(t, c.literal)}
      [] c.op = "conflict" -> {traceConflict(t, c.literal)}
      [] c.op = "restart" -> {traceRestart(t), traceRestartCore(t)}
      [] c.op = "learnt" -> {traceLearntClause(t, c.id, c.clause)}
      [] c.op = "unlearnt" -> {traceUnlearntClause(t, c.id)}

ScenarioStart ==
    /\ pc = "start"
    /\ tracer' = TracerCtor
    /\ pc' = "scenario"
    /\ last' = [NoCall EXCEPT !.op = "construct"]
    /\ reserved' = Len(tracer'.traceFile)
    /\ UNCHANGED <<accLevel, nCalls, restartCalls, calls, snapshotCalls>>

ScenarioCall ==
    /\ pc = "scenario"
    /\ nCalls < Len(ScenarioScript)
    /\ LET c == ScenarioScript[nCalls + 1] IN
       \E t \in Perform(tracer, c) :
          /\ Call(c, t)
          /\ accLevel' = IF c.op \in {"push", "backtrack"} /\ ~t.failed
                         THEN c.level ELSE accLevel
          /\ restartCalls' = IF c.op = "restart" THEN restartCalls + 1
                             ELSE restartCalls

ScenarioFinalize ==
    /\ pc = "scenario"
    /\ nCalls = Len(ScenarioScript)
    /\ tracer' = TracerDtor(tracer)
    /\ pc' = "destroyed"
    /\ last' = [NoCall EXCEPT !.op = "destroy"]
    /\ UNCHANGED <<accLevel, nCalls, restartCalls, reserved, calls, snapshotCalls>>

\* the scenario's owner issues the calls of the script and no others
NextScenario ==
    \/ pc # "scenario" /\ Next
    \/ ScenarioStart
    \/ ScenarioCall
    \/ ScenarioFinalize

SpecScenario == Init /\ [][NextScenario]_vars

(***************************************************************************)
(* An owner that also writes the simplified instance: recording calls and  *)
(* writeSimplifiedInstance calls interleave freely.                        *)
(***************************************************************************)
\* the (instance, numVars) arguments of writeSimplifiedInstance
SnapshotArgs ==
    { << <<>>, 0 >>,
      << << <<Lit(1, FALSE), Lit(2, TRUE)>> >>, 2 >>,
      << << <<Lit(12, TRUE)>>, <<>>,
            <<Lit(3, FALSE), Lit(10, FALSE), Lit(3, TRUE)>> >>, 12 >> }

SnapshotStart ==
    /\ pc = "start"
    /\ tracer' = TracerCtor
    /\ pc' = "snapshot"
    /\ last' = [NoCall EXCEPT !.op = "construct"]
    /\ reserved' = Len(tracer'.traceFile)
    /\ UNCHANGED <<accLevel, nCalls, restartCalls, calls, snapshotCalls>>

WriteSimplifiedInstance ==
    \E a \in SnapshotArgs :
        /\ pc = "snapshot"
        /\ snapshotCalls < MaxSnapshotWrites
        /\ tracer' = writeSimplifiedInstance(tracer, a[1], a[2])
        /\ last' = [NoCall EXCEPT !.op = "writeSimplifiedInstance",
                                  !.instance = a[1], !.numVars = a[2]]
        /\ snapshotCalls' = snapshotCalls + 1
        /\ UNCHANGED <<pc, accLevel, nCalls, restartCalls, reserved, calls>>

SnapshotDestroy ==
    /\ pc = "snapshot"
    /\ tracer' = TracerDtor(tracer)
    /\ pc' = "destroyed"
    /\ last' = [NoCall EXCEPT !.op = "destroy"]
    /\ UNCHANGED <<accLevel, nCalls, restartCalls, reserved, calls, snapshotCalls>>

NextSnapshot ==
    \/ SnapshotStart
    \/ Recording
    \/ WriteSimplifiedInstance
    \/ SnapshotDestroy

SpecSnapshot == Init /\ [][NextSnapshot]_vars

(***************************************************************************)
(* An owner whose storage can fail and whose process can be killed.  The   *)
(* streams are std::ofstream objects with the default exception mask: a    *)
(* failed open or write sets the stream's failure state and nothing else.  *)
(***************************************************************************)
\* the constructor when traceFile.open fails: no file, the stream is in a
\* failed state and writeDummyHeader's writes do nothing
TracerCtorOpenFailed ==
    [TracerCtor EXCEPT !.traceFile = <<>>, !.traceOpen = FALSE, !.traceBad = TRUE]

\* traceBranch when the write to the storage fails: nothing is written and
\* the stream enters its failed state
traceBranchWriteFailed(t, literal) ==
    [traceBranch([t EXCEPT !.traceBad = TRUE], literal) EXCEPT !.traceBad = TRUE]

\* writeHeader(false, ..) up to the seekp of its second writeToHeader, which
\* flushes the first: headerSize is in the file, the restart count is not
writeHeaderFirstWrite(t) ==
    LET headerSize == writeHeader(t, TRUE, DummyRestarts).headerSize
    IN  [t EXCEPT !.traceFile = writeToHeader(@, FALSE, headerSize, 0).file]

\* the destructor on a stream in a failed state, when the reopen succeeds
\* (open clears the state) and when it fails (tellp() is -1, the assertion
\* on the position fails)
TracerDtorAfterFailure(t) ==
    (IF t.traceOpen THEN {TracerDtor([t EXCEPT !.traceBad = FALSE])} ELSE {})
        \cup {[t EXCEPT !.failed = TRUE]}

FaultStart ==
    \E t \in {TracerCtor, TracerCtorOpenFailed} :
        /\ pc = "start"
        /\ tracer' = t
        /\ pc' = "faulty"
        /\ last' = [NoCall EXCEPT !.op = "construct"]
        /\ reserved' = Len(TracerCtor.traceFile)
        /\ UNCHANGED <<accLevel, nCalls, restartCalls, calls, snapshotCalls>>

WriteFailure ==
    \E literal \in Literals :
        /\ pc = "faulty"
        /\ ~tracer.traceBad
        /\ Call([NoCall EXCEPT !.op = "branch", !.literal = literal],
                traceBranchWriteFailed(tracer, literal))
        /\ UNCHANGED <<accLevel, restartCalls>>

FinalizeCutShort ==
    /\ pc = "faulty"
    /\ ~tracer.traceBad
    /\ tracer' = writeHeaderFirstWrite(tracer)
    /\ pc' = "cut_short"
    /\ last' = [NoCall EXCEPT !.op = "destroy", !.ok = FALSE]
    /\ UNCHANGED <<accLevel, nCalls, restartCalls, reserved, calls, snapshotCalls>>

FaultDestroy ==
    \E t \in IF tracer.traceBad THEN TracerDtorAfterFailure(tracer)
              ELSE {TracerDtor(tracer)} :
        /\ pc = "faulty"
        /\ tracer' = t
        /\ pc' = IF t.failed THEN "aborted" ELSE "destroyed"
        /\ last' = [NoCall EXCEPT !.op = "destroy", !.ok = ~t.failed]
        /\ UNCHANGED <<accLevel, nCalls, restartCalls, reserved, calls, snapshotCalls>>

NextFault ==
    \/ FaultStart
    \/ Recording
    \/ WriteFailure
    \/ FinalizeCutShort
    \/ FaultDestroy

SpecFault == Init /\ [][NextFault]_vars

(***************************************************************************)
(* An owner that records one literal: it constructs the tracer and passes  *)
(* the literal to one of the four operations that encode a literal.        *)
(***************************************************************************)
InitLiteral ==
    /\ pc = "literal"
    /\ tracer = TracerCtor
    /\ \E v \in LiteralVars, n \in BOOLEAN :
          last = [NoCall EXCEPT !.op = "construct", !.literal = Lit(v, n)]
    /\ accLevel = 0
    /\ nCalls = 0
    /\ restartCalls = 0
    /\ reserved = Len(TracerCtor.traceFile)
    /\ calls = <<>>
    /\ snapshotCalls = 0

\* the call c on the literal chosen, which takes the object to t
LiteralCall(c, t) ==
    /\ pc = "literal"
    /\ tracer' = t
    /\ pc' = "literal_done"
    /\ last' = [c EXCEPT !.ok = ~t.failed]
    /\ nCalls' = nCalls + 1
    /\ calls' = IF t.failed THEN calls ELSE Append(calls, c)
    /\ UNCHANGED <<accLevel, restartCalls, reserved, snapshotCalls>>

LiteralBranch ==
    LiteralCall([last EXCEPT !.op = "branch"], traceBranch(tracer, last.literal))

LiteralSetVariable ==
    LiteralCall([last EXCEPT !.op = "setVariable"],
                traceSetVariable(tracer, last.literal))

LiteralConflict ==
    LiteralCall([last EXCEPT !.op = "conflict"], traceConflict(tracer, last.literal))

LiteralInClause ==
    \E clause_id \in ClauseIds :
        LiteralCall([last EXCEPT !.op = "learnt", !.id = clause_id,
                                 !.clause = <<last.literal>>],
                    traceLearntClause(tracer, clause_id, <<last.literal>>))

NextLiteral ==
    LiteralBranch \/ LiteralSetVariable \/ LiteralConflict \/ LiteralInClause

SpecLiteral == InitLiteral /\ [][NextLiteral]_vars

(***************************************************************************)
(* main of minisat/simp/Main.cc, from the creation of the tracer on.  The  *)
(* tracer is a local variable of the try block of main.                    *)
(***************************************************************************)
MainStep(op, to, t) ==
    /\ tracer' = t
    /\ pc' = to
    /\ last' = [NoCall EXCEPT !.op = op]
    /\ reserved' = IF op = "construct" THEN Len(t.traceFile) ELSE reserved
    /\ UNCHANGED <<accLevel, nCalls, restartCalls, calls, snapshotCalls>>

\* Tracer tracer(trace_name, simplified_name, in_name); parse_DIMACS starts.
\* sigTerm(SIGINT_exit) is in force since before the tracer was created.
MainCreateTracer ==
    /\ pc = "start"
    /\ MainStep("construct", "parse", TracerCtor)

\* SIGINT while SIGINT_exit is the handler: _exit(1).  No destructor runs
\* and no stream is flushed.
SigintExit ==
    /\ pc = "parse"
    /\ MainStep("SIGINT_exit", "exited", tracer)

\* parse_DIMACS returned; sigTerm(SIGINT_interrupt); S.eliminate(true) starts
ParseDone ==
    /\ pc = "parse"
    /\ MainStep("parsed", "eliminate", tracer)

\* S.eliminate returned and !S.okay(): exit(20).  exit() does not destroy
\* the local variables of main.
SolvedBySimplification ==
    /\ pc = "eliminate"
    /\ MainStep("exit20", "exited", tracer)

\* S.eliminate returned and S.okay(): S.solveLimited(dummy) starts
EliminateDone ==
    /\ pc = "eliminate"
    /\ MainStep("eliminated", "solve", tracer)

\* SIGINT while SIGINT_interrupt is the handler: solver->interrupt(); the
\* solver backs out on its own and main goes on to its return
SigintInterrupt ==
    /\ pc \in {"eliminate", "solve"}
    /\ MainStep("SIGINT_interrupt", "interrupted", tracer)

\* return of main: the try block is left and the tracer destroyed
MainReturn ==
    /\ pc \in {"solve", "interrupted"}
    /\ MainStep("return", "returned", TracerDtor(tracer))

\* OutOfMemoryException thrown under parse_DIMACS, eliminate or solveLimited:
\* the stack is unwound out of the try block, which destroys the tracer, and
\* the handler calls exit(0)
OutOfMemory ==
    /\ pc \in {"parse", "eliminate", "solve", "interrupted"}
    /\ MainStep("OutOfMemory", "exited_oom", TracerDtor(tracer))

NextMain ==
    \/ MainCreateTracer
    \/ Recording
    \/ SigintExit
    \/ ParseDone
    \/ SolvedBySimplification
    \/ EliminateDone
    \/ SigintInterrupt
    \/ MainReturn
    \/ OutOfMemory

SpecMain == Init /\ [][NextMain]_vars

(***************************************************************************)
(* The reader's side of the file format, used to state the properties.     *)
(***************************************************************************)
\* the int32 whose 4 raw bytes are b
Int32Of(b) ==
    LET low == b[1] + 256 * b[2] + 65536 * b[3] + 16777216 * (b[4] % 128)
    IN  IF b[4] < 128 THEN low ELSE (low - 2147483647) - 1

\* the events a reader finds in a file whose header takes h bytes
Events(file, h) ==
    [k \in 1 .. ((Len(file) - h) \div 5) |->
        [tag  |-> file[h + 5 * (k - 1) + 1],
         data |-> Int32Of(SubSeq(file, h + 5 * (k - 1) + 2, h + 5 * (k - 1) + 5))]]

Ev(tag, data) == [tag |-> tag, data |-> data]

\* a file that grew from old to new by exactly the events evs, old untouched
AppendedEvents(old, new, evs) ==
    /\ Len(new) = Len(old) + 5 * Len(evs)
    /\ SubSeq(new, 1, Len(old)) = old
    /\ Events(new, Len(old)) = evs

(***************************************************************************)
(* C1: traceNewDecisionLevel(level) is accepted if and only if             *)
(* level = currentLevel + 1, where currentLevel is 0 when the tracer is    *)
(* created; an accepted call sets currentLevel to level and appends        *)
(* exactly one '>' event with payload level; any other call fails with an  *)
(* assertion violation, which aborts the process.                          *)
(***************************************************************************)
C1_PushLevel ==
    [][ /\ (last'.op = "construct" => tracer'.levelForAssert = 0)
        /\ (last'.op = "push" =>
              /\ last'.ok <=> (last'.level = tracer.levelForAssert + 1)
              /\ last'.ok =>
                    /\ tracer'.levelForAssert = last'.level
                    /\ AppendedEvents(tracer.traceFile, tracer'.traceFile,
                                      <<Ev(TagNewLevel, last'.level)>>)
              /\ ~last'.ok => pc' = "aborted") ]_vars

\* a second push in a row was accepted, at level 2
C1_Witness ==
    /\ last.op = "push" /\ last.ok /\ last.level = 2
    /\ tracer.levelForAssert = 2
    /\ nCalls = 2

(***************************************************************************)
(* C2: traceBacktrack(level) is accepted if and only if                    *)
(* level < currentLevel or level = 0; an accepted call sets currentLevel   *)
(* to level and appends exactly one '<' event with payload level.  So      *)
(* backtrack(0) at level 0 is accepted, leaves the level at 0 and can be   *)
(* repeated.                                                               *)
(***************************************************************************)
C2_Backtrack ==
    [][ last'.op = "backtrack" =>
          /\ last'.ok <=> (last'.level < tracer.levelForAssert \/ last'.level = 0)
          /\ last'.ok =>
                /\ tracer'.levelForAssert = last'.level
                /\ AppendedEvents(tracer.traceFile, tracer'.traceFile,
                                  <<Ev(TagBacktrack, last'.level)>>)
          /\ ~last'.ok => pc' = "aborted" ]_vars

\* backtrack(0) was accepted three times in a row from level 0
C2_Witness ==
    /\ last.op = "backtrack" /\ last.ok /\ last.level = 0
    /\ tracer.levelForAssert = 0
    /\ pc # "start"
    /\ Events(tracer.traceFile, reserved)
         = <<Ev(TagBacktrack, 0), Ev(TagBacktrack, 0), Ev(TagBacktrack, 0)>>

(***************************************************************************)
(* C3: a push or backtrack call that violates its level precondition       *)
(* fails before any byte of the call is written: when the process aborts,  *)
(* the trace stream and the decision-level cursor are what they were       *)
(* before the call.                                                        *)
(***************************************************************************)
C3_FailsBeforeWriting ==
    [][ /\ (last'.op = "push" /\ last'.level # tracer.levelForAssert + 1)
           \/ (last'.op = "backtrack"
                 /\ ~(last'.level < tracer.levelForAssert \/ last'.level = 0))
        => /\ ~last'.ok
           /\ pc' = "aborted"
           /\ tracer'.traceFile = tracer.traceFile
           /\ tracer'.levelForAssert = tracer.levelForAssert ]_vars

\* a backtrack to the current level 1 was refused after two recorded events
C3_Witness ==
    /\ pc = "aborted"
    /\ last.op = "backtrack" /\ ~last.ok /\ last.level = 1
    /\ tracer.levelForAssert = 1
    /\ Len(tracer.traceFile) = reserved + 10

(***************************************************************************)
(* C4: the decision-level cursor always equals the level argument of the   *)
(* most recent accepted push or backtrack call (0 if there was none), and  *)
(* a branch, set-variable, conflict, restart, learn-clause or              *)
(* unlearn-clause call never changes it.                                   *)
(***************************************************************************)
C4_Cursor ==
    [][ /\ tracer'.levelForAssert = accLevel'
        /\ (last'.op \in {"branch", "setVariable", "conflict", "restart",
                          "learnt", "unlearnt"}
              => tracer'.levelForAssert = tracer.levelForAssert) ]_vars

\* two pushes, then a learnt clause recorded at level 2
C4_Witness ==
    /\ last.op = "learnt" /\ last.ok
    /\ accLevel = 2
    /\ tracer.levelForAssert = 2
    /\ nCalls = 3

(***************************************************************************)
(* C5: once the header is finalized, its restartCount field equals the     *)
(* number of traceRestart calls that were made, which is the number of     *)
(* 'R' events in the stream, whatever other events were recorded between   *)
(* them.                                                                   *)
(***************************************************************************)
Finalized == {"destroyed", "returned", "exited_oom"}

HeaderSizeField(file) == Int32Of(SubSeq(file, 1, 4))
RestartCountField(file) == Int32Of(SubSeq(file, 5, 8))

RestartEvents(evs) == {k \in DOMAIN evs : evs[k].tag = TagRestart}

C5_RestartCount ==
    pc \in Finalized =>
        /\ RestartCountField(tracer.traceFile) = restartCalls
        /\ RestartCountField(tracer.traceFile)
             = Cardinality(RestartEvents(Events(tracer.traceFile, reserved)))

\* two restarts and one other event, then the header was finalized
C5_Witness ==
    /\ pc = "destroyed"
    /\ restartCalls = 2
    /\ nCalls = 3
    /\ RestartCountField(tracer.traceFile) = 2

(***************************************************************************)
(* C6: traceRestart is accepted at any decision level and records before   *)
(* it increments: the k-th 'R' event of the stream carries payload k - 1,  *)
(* in both copies of the class.                                            *)
(***************************************************************************)
C6_RestartIndex ==
    LET evs == Events(tracer.traceFile, reserved) IN
    /\ \A k \in DOMAIN evs :
          evs[k].tag = TagRestart
            => evs[k].data = Cardinality({j \in RestartEvents(evs) : j < k})
    /\ last.op = "restart" => last.ok /\ pc # "aborted"
    /\ tracer.m_currentRestarts = restartCalls

\* the second restart was recorded at decision level 1
C6_Witness ==
    /\ last.op = "restart" /\ last.ok
    /\ tracer.levelForAssert = 1
    /\ tracer.m_currentRestarts = 2
    /\ Events(tracer.traceFile, reserved)[3] = Ev(TagRestart, 1)

(***************************************************************************)
(* C7: traceLearntClause(id, clause) with a clause of K >= 0 literals is   *)
(* always accepted and appends exactly K + 2 consecutive events: 'L' with  *)
(* payload id, 'S' with payload K, then one 'x' event per literal, in the  *)
(* caller's order and with duplicates kept; for K = 0 the group is 'L id', *)
(* 'S 0'.                                                                  *)
(***************************************************************************)
LitPayload(literal) ==
    IF literal.negated THEN 0 - literal.variable ELSE literal.variable

C7_LearntGroup ==
    [][ last'.op = "learnt" =>
          /\ last'.ok
          /\ AppendedEvents(tracer.traceFile, tracer'.traceFile,
                <<Ev(TagLearnt, last'.id), Ev(TagSize, Len(last'.clause))>>
                \o [i \in 1 .. Len(last'.clause) |->
                       Ev(TagClauseLit, LitPayload(last'.clause[i]))]) ]_vars

\* a clause with the same literal twice was recorded after another event
C7_Witness ==
    /\ last.op = "learnt" /\ last.ok
    /\ last.clause = <<Lit(2, TRUE), Lit(2, TRUE)>>
    /\ Len(tracer.traceFile) = reserved + 5 + 20

(***************************************************************************)
(* C8: the header size computed when the space is reserved is the number   *)
(* of zero bytes the constructor writes, a multiple of 5 that is at least  *)
(* the 8 bytes of the two int32 fields; the first event starts at that     *)
(* byte offset; finalize writes that same number into the headerSize       *)
(* field, and leaves the padding bytes zero and the file length unchanged. *)
(***************************************************************************)
FirstTag(op) ==
    CASE op = "push" -> TagNewLevel
      [] op = "backtrack" -> TagBacktrack
      [] op = "branch" -> TagBranch
      [] op = "setVariable" -> TagSetVariable
      [] op = "conflict" -> TagConflict
      [] op = "restart" -> TagRestart
      [] op = "learnt" -> TagLearnt
      [] op = "unlearnt" -> TagUnlearnt

C8_HeaderSize ==
    [][ /\ (last'.op = "construct" =>
              /\ reserved' = writeHeader(NoTracer, TRUE, DummyRestarts).headerSize
              /\ reserved' % 5 = 0
              /\ reserved' >= 2 * SizeofInt32
              /\ tracer'.traceFile = [i \in 1 .. reserved' |-> 0])
        /\ (nCalls = 0 /\ nCalls' = 1 /\ last'.ok =>
              /\ Len(tracer.traceFile) = reserved
              /\ tracer'.traceFile[reserved + 1] = FirstTag(last'.op))
        /\ (pc' \in Finalized =>
              /\ HeaderSizeField(tracer'.traceFile) = reserved
              /\ Len(tracer'.traceFile) = Len(tracer.traceFile)
              /\ \A i \in 2 * SizeofInt32 + 1 .. reserved :
                    tracer'.traceFile[i] = 0) ]_vars

\* a finalized file with one recorded call: headerSize 10 in the header
C8_Witness ==
    /\ pc = "destroyed"
    /\ nCalls = 1
    /\ HeaderSizeField(tracer.traceFile) = 10
    /\ Len(tracer.traceFile) > reserved

(***************************************************************************)
(* C9: the event region is append-only.  A recording call leaves every     *)
(* byte written before it unchanged (the old stream is a prefix of the     *)
(* new one); finalize changes only bytes of the header region              *)
(* [0, headerSize) and leaves every event byte and the length unchanged.   *)
(***************************************************************************)
C9_AppendOnly ==
    [][ /\ (last'.op \in {"push", "backtrack", "branch", "setVariable", "conflict",
                          "restart", "learnt", "unlearnt"} =>
              /\ Len(tracer'.traceFile) >= Len(tracer.traceFile)
              /\ SubSeq(tracer'.traceFile, 1, Len(tracer.traceFile)) = tracer.traceFile)
        /\ (pc' \in Finalized =>
              /\ Len(tracer'.traceFile) = Len(tracer.traceFile)
              /\ \A i \in reserved + 1 .. Len(tracer.traceFile) :
                    tracer'.traceFile[i] = tracer.traceFile[i]
              /\ Events(tracer'.traceFile, reserved)
                   = Events(tracer.traceFile, reserved)) ]_vars

\* a finalized file that holds three events behind a rewritten header
C9_Witness ==
    /\ pc = "destroyed"
    /\ Len(tracer.traceFile) = reserved + 15
    /\ SubSeq(tracer.traceFile, 1, reserved) # [i \in 1 .. reserved |-> 0]

(***************************************************************************)
(* C10: whichever way main terminates once the tracer exists (return,      *)
(* UNSAT found by simplification, out of memory, SIGINT while parsing or   *)
(* solving), the header has been finalized: the trace file on disk does    *)
(* not keep the zero placeholder header.                                   *)
(***************************************************************************)
\* what the trace file on disk can hold: the stream's content once it was
\* closed, and any prefix of it while bytes may still sit in its buffer
OnDisk ==
    IF tracer.traceOpen
    THEN {SubSeq(tracer.traceFile, 1, n) : n \in 0 .. Len(tracer.traceFile)}
    ELSE {tracer.traceFile}

HeaderFinalized(file) ==
    /\ Len(file) >= reserved
    /\ HeaderSizeField(file) = reserved
    /\ RestartCountField(file) = restartCalls

MainTerminated == {"returned", "exited", "exited_oom"}

C10_FinalizedOnEveryExit ==
    pc \in MainTerminated => \A file \in OnDisk : HeaderFinalized(file)

(***************************************************************************)
(* C11: branch, set-variable, conflict, unlearn-clause, push-level,        *)
(* backtrack and restart append exactly one event each, and the events in  *)
(* the stream are the accepted calls in call order.  After push(1),        *)
(* branch(5, false), setVariable(3, true), conflict(5, false),             *)
(* backtrack(0), restart, finalize the stream holds exactly the 6 events   *)
(* > 1, B 5, + -3, C 5, < 0, R 0 and the header's restartCount is 1.       *)
(* Unlearn-clause is accepted for any id, learnt before or not.            *)
(***************************************************************************)
\* the events the i-th call of cs stands for
CallEvents(cs, i) ==
    LET c == cs[i] IN
    CASE c.op = "push" -> <<Ev(TagNewLevel, c.level)>>
      [] c.op = "backtrack" -> <<Ev(TagBacktrack, c.level)>>
      [] c.op = "branch" -> <<Ev(TagBranch, LitPayload(c.literal))>>
      [] c.op = "setVariable" -> <<Ev(TagSetVariable, LitPayload(c.literal))>>
      [] c.op = "conflict" -> <<Ev(TagConflict, LitPayload(c.literal))>>
      [] c.op = "restart" ->
            <<Ev(TagRestart, Cardinality({j \in 1 .. i - 1 : cs[j].op = "restart"}))>>
      [] c.op = "unlearnt" -> <<Ev(TagUnlearnt, c.id)>>
      [] c.op = "learnt" ->
            <<Ev(TagLearnt, c.id), Ev(TagSize, Len(c.clause))>>
            \o [k \in 1 .. Len(c.clause) |-> Ev(TagClauseLit, LitPayload(c.clause[k]))]

RECURSIVE ExpectedEvents(_, _)
\* the events the first n calls of cs stand for
ExpectedEvents(cs, n) ==
    IF n = 0 THEN <<>> ELSE ExpectedEvents(cs, n - 1) \o CallEvents(cs, n)

SingleEventOps ==
    {"push", "backtrack", "branch", "setVariable", "conflict", "restart", "unlearnt"}

C11_EventsInCallOrder ==
    /\ Events(tracer.traceFile, reserved) = ExpectedEvents(calls, Len(calls))
    /\ \A i \in DOMAIN calls :
          calls[i].op \in SingleEventOps => Len(CallEvents(calls, i)) = 1
    /\ last.op \in {"branch", "setVariable", "conflict", "unlearnt"} => last.ok
    /\ pc = "destroyed" /\ calls = ScenarioScript =>
          /\ Events(tracer.traceFile, reserved)
               = << Ev(TagNewLevel, 1), Ev(TagBranch, 5), Ev(TagSetVariable, 0 - 3),
                    Ev(TagConflict, 5), Ev(TagBacktrack, 0), Ev(TagRestart, 0) >>
          /\ RestartCountField(tracer.traceFile) = 1

\* the scenario ran to its end and the header was finalized
C11_Witness ==
    /\ pc = "destroyed"
    /\ calls = ScenarioScript
    /\ Len(tracer.traceFile) = reserved + 30
    /\ RestartCountField(tracer.traceFile) = 1

(***************************************************************************)
(* C12: for a literal with variable id v > 0 and negation flag f, the      *)
(* payload that branch, set-variable, conflict and the 'x' event of a      *)
(* learnt clause write is v when f is false and -v when f is true.  It is  *)
(* never 0 and (v, f) is recovered from a payload p as (|p|, p < 0), so    *)
(* the encoding is injective.                                              *)
(***************************************************************************)
LiteralTag(op) ==
    CASE op = "branch" -> TagBranch
      [] op = "setVariable" -> TagSetVariable
      [] op = "conflict" -> TagConflict
      [] op = "learnt" -> TagClauseLit

\* what the reader takes a payload for
LiteralOf(p) == Lit(IF p < 0 THEN 0 - p ELSE p, p < 0)

C12_LiteralEncoding ==
    pc = "literal_done" =>
        LET evs == Events(tracer.traceFile, reserved)
            e == evs[Len(evs)]
        IN  /\ last.ok
            /\ Len(evs) = IF last.op = "learnt" THEN 3 ELSE 1
            /\ e.tag = LiteralTag(last.op)
            /\ e.data = IF last.literal.negated THEN 0 - last.literal.variable
                        ELSE last.literal.variable
            /\ e.data # 0
            /\ LiteralOf(e.data) = last.literal

\* the negated literal of variable 65536 was written as an 'x' event
C12_Witness ==
    /\ pc = "literal_done"
    /\ last.op = "learnt"
    /\ last.literal = Lit(65536, TRUE)
    /\ Events(tracer.traceFile, reserved)[3] = Ev(TagClauseLit, 0 - 65536)

(***************************************************************************)
(* Reading the snapshot file back: lines, tokens, integers.                *)
(***************************************************************************)
\* the pieces of text between the occurrences of sep; the text after the
\* last sep is the last piece
RECURSIVE SplitAt(_, _, _)
SplitAt(text, sep, piece) ==
    IF text = <<>> THEN <<piece>>
    ELSE IF Head(text) = sep THEN <<piece>> \o SplitAt(Tail(text), sep, <<>>)
    ELSE SplitAt(Tail(text), sep, Append(piece, Head(text)))

\* the lines of a text all of whose lines are terminated
TextLines(text) ==
    LET pieces == SplitAt(text, "\n", <<>>)
    IN  SubSeq(pieces, 1, Len(pieces) - 1)

Terminated(text) == text # <<>> /\ text[Len(text)] = "\n"

Tokens(line) == SplitAt(line, " ", <<>>)

IsDigit(ch) == \E d \in 1 .. 10 : Digits[d] = ch

DigitValue(ch) == (CHOOSE d \in 1 .. 10 : Digits[d] = ch) - 1

IsNumber(tok) ==
    LET body == IF tok # <<>> /\ Head(tok) = "-" THEN Tail(tok) ELSE tok
    IN  body # <<>> /\ \A i \in 1 .. Len(body) : IsDigit(body[i])

RECURSIVE NaturalOf(_, _)
NaturalOf(body, acc) ==
    IF body = <<>> THEN acc
    ELSE NaturalOf(Tail(body), 10 * acc + DigitValue(Head(body)))

NumberOf(tok) ==
    IF Head(tok) = "-" THEN 0 - NaturalOf(Tail(tok), 0) ELSE NaturalOf(tok, 0)

\* the integers a line of numbers lists, <<>> where a token is no number
LineNumbers(line) ==
    LET toks == Tokens(line)
    IN  IF \A i \in 1 .. Len(toks) : IsNumber(toks[i])
        THEN [i \in 1 .. Len(toks) |-> NumberOf(toks[i])]
        ELSE <<>>

\* what a clause line has to list: the signed literals, then 0
ClauseNumbers(clause) ==
    [i \in 1 .. Len(clause) + 1 |->
        IF i <= Len(clause)
        THEN (IF clause[i].negated THEN 0 - clause[i].variable
              ELSE clause[i].variable)
        ELSE 0]

\* C13: after a writeSimplifiedInstance(instance, numVars) call on a tracer
\* whose snapshot was not written before, the snapshot file is, in this
\* order: one line that identifies the source instance, one summary line
\* "p numVars numberOfClauses", and one line per clause in instance order
\* that lists the clause's literals in order as signed integers separated
\* by single spaces and ends in 0; the instance [[(1,false),(2,true)]]
\* gives the clause line "1 -2 0"; the file is closed when the call returns.
C13_SnapshotContent ==
    (last.op = "writeSimplifiedInstance" /\ snapshotCalls = 1) =>
        LET lines == TextLines(tracer.simplifiedFile)
            n == Len(last.instance)
        IN  /\ Terminated(tracer.simplifiedFile)
            /\ ~tracer.simplifiedOpen
            /\ Len(lines) = n + 2
            /\ lines[1] = SimplifiedFrom \o InstanceName
            /\ Len(Tokens(lines[2])) = 3
            /\ Tokens(lines[2])[1] = <<"p">>
            /\ IsNumber(Tokens(lines[2])[2])
            /\ NumberOf(Tokens(lines[2])[2]) = last.numVars
            /\ IsNumber(Tokens(lines[2])[3])
            /\ NumberOf(Tokens(lines[2])[3]) = n
            /\ \A k \in 1 .. n :
                   LineNumbers(lines[k + 2]) = ClauseNumbers(last.instance[k])
            /\ (last.instance = << <<Lit(1, FALSE), Lit(2, TRUE)>> >> =>
                   lines[3] = <<"1", " ", "-", "2", " ", "0">>)

\* C13 witness: the scenario instance was written with numVars = 2
C13_Witness ==
    /\ last.op = "writeSimplifiedInstance"
    /\ snapshotCalls = 1
    /\ last.instance = << <<Lit(1, FALSE), Lit(2, TRUE)>> >>
    /\ last.numVars = 2
    /\ Len(TextLines(tracer.simplifiedFile)) = 3

\* the identifying line, as the constructor leaves it in the snapshot file
IdentifyingLine == SimplifiedFrom \o InstanceName \o Newline

\* a snapshot whose summary line counts its clause lines and whose clause
\* lines all end in the 0 sentinel
CompleteSnapshot(text) ==
    LET lines == TextLines(text)
    IN  /\ Terminated(text)
        /\ Len(lines) >= 2
        /\ lines[1] \o Newline = IdentifyingLine
        /\ Len(Tokens(lines[2])) = 3
        /\ IsNumber(Tokens(lines[2])[3])
        /\ NumberOf(Tokens(lines[2])[3]) = Len(lines) - 2
        /\ \A k \in 3 .. Len(lines) :
               LET toks == Tokens(lines[k]) IN toks[Len(toks)] = <<"0">>

\* C17 as stated: the snapshot file is created, written completely and
\* closed within the single writeSimplifiedInstance call; before that call no
\* snapshot file content exists, and a run that never calls it leaves no
\* partially written snapshot file behind.
C17_NoContentBeforeCall ==
    snapshotCalls = 0 => (tracer.simplifiedFile = <<>> /\ ~tracer.simplifiedOpen)

\* C17 amended: the snapshot file is created, and its identifying line
\* written, when the tracer is constructed; until the first
\* writeSimplifiedInstance call the file holds exactly that line and stays
\* open while the tracer lives, and a run that never makes the call leaves
\* the file with that line only; the first call
\* appends the summary line and every clause line and closes the file, and
\* from then on the file is closed and complete.
C17_SnapshotLifecycle ==
    /\ pc = "start" => (tracer.simplifiedFile = <<>> /\ ~tracer.simplifiedOpen)
    /\ (pc # "start" /\ snapshotCalls = 0) =>
           /\ tracer.simplifiedFile = IdentifyingLine
           /\ pc # "destroyed" => tracer.simplifiedOpen
    /\ snapshotCalls > 0 =>
           (~tracer.simplifiedOpen /\ CompleteSnapshot(tracer.simplifiedFile))

\* C17 witness: a run that never called writeSimplifiedInstance has ended,
\* and the snapshot file holds the identifying line only
C17_Witness ==
    /\ pc = "destroyed"
    /\ snapshotCalls = 0
    /\ nCalls > 0
    /\ tracer.simplifiedFile = IdentifyingLine

\* C18: writeSimplifiedInstance can be called in any state of the trace and
\* leaves the trace stream, the decision-level cursor and the restart
\* counter as they are; no recording operation and no finalize changes the
\* snapshot file.
C18_Independent ==
    [][ /\ (pc = "snapshot" /\ snapshotCalls < MaxSnapshotWrites) =>
              ENABLED WriteSimplifiedInstance
        /\ snapshotCalls' # snapshotCalls =>
              /\ tracer'.traceFile = tracer.traceFile
              /\ tracer'.traceOpen = tracer.traceOpen
              /\ tracer'.levelForAssert = tracer.levelForAssert
              /\ tracer'.m_currentRestarts = tracer.m_currentRestarts
              /\ ~tracer'.failed
        /\ (snapshotCalls' = snapshotCalls /\ pc # "start") =>
              tracer'.simplifiedFile = tracer.simplifiedFile ]_vars

\* C18 witness: the snapshot was written between events, at decision level
\* 1, and the trace holds the event recorded before it
C18_Witness ==
    /\ last.op = "writeSimplifiedInstance"
    /\ tracer.levelForAssert = 1
    /\ calls # <<>>
    /\ nCalls < MaxSnapshotCalls
    /\ Len(tracer.traceFile) = reserved + EventAlign * Len(calls)

\* the header region of a trace file
HeaderRegion(file) ==
    LET headerSize == writeHeader(NoTracer, TRUE, DummyRestarts).headerSize
    IN  SubSeq(file, 1, IF Len(file) < headerSize THEN Len(file) ELSE headerSize)

ZeroPlaceholder ==
    [i \in 1 .. writeHeader(NoTracer, TRUE, DummyRestarts).headerSize |-> 0]

\* C14: over the lifetime of one tracer the file operations are ordered
\* reserve, events, finalize: whenever bytes are appended to the trace the
\* zero placeholder header is already in the file and the stream is still
\* open; the header region is overwritten at most once, by the step that
\* closes the stream; after that step the trace file never changes again.
C14_ReserveEventsFinalize ==
    [][ /\ (pc # "start" /\ Len(tracer'.traceFile) > Len(tracer.traceFile)) =>
              /\ tracer.traceOpen
              /\ Len(tracer.traceFile) >= Len(ZeroPlaceholder)
              /\ HeaderRegion(tracer.traceFile) = ZeroPlaceholder
              /\ HeaderRegion(tracer'.traceFile) = ZeroPlaceholder
        /\ (pc # "start" /\ HeaderRegion(tracer'.traceFile)
                                # HeaderRegion(tracer.traceFile)) =>
              /\ HeaderRegion(tracer.traceFile) = ZeroPlaceholder
              /\ tracer.traceOpen /\ ~tracer'.traceOpen
              /\ last'.op = "destroy"
        /\ (pc # "start" /\ ~tracer.traceOpen) =>
              tracer'.traceFile = tracer.traceFile ]_vars

\* C14 witness: placeholder, two recording calls, then the finalized header
C14_Witness ==
    /\ last.op = "destroy"
    /\ Len(calls) >= 2
    /\ ~tracer.traceOpen
    /\ HeaderRegion(tracer.traceFile) # ZeroPlaceholder
    /\ Len(tracer.traceFile) > Len(ZeroPlaceholder)

LevelTags == {TagNewLevel, TagBacktrack}

\* the payload of the nearest level event before event k, 0 if there is none
PrecedingLevel(evs, k) ==
    LET before == {j \in 1 .. k - 1 : evs[j].tag \in LevelTags}
    IN  IF before = {} THEN 0
        ELSE evs[CHOOSE j \in before : \A i \in before : i <= j].data

\* C19: the recorded stream is well nested: each '>' event's payload is 1
\* plus the payload of the nearest preceding '<' or '>' event (1 if there
\* is none), each '<' event's payload is 0 or strictly smaller than the
\* payload of the nearest preceding '<' or '>' event (0 if there is none);
\* when all level arguments are >= 0, no level event has a negative payload
\* and the cursor is not negative.
C19_WellNested ==
    LET evs == Events(tracer.traceFile, reserved)
    IN  /\ \A k \in DOMAIN evs :
              /\ evs[k].tag = TagNewLevel =>
                     evs[k].data = 1 + PrecedingLevel(evs, k)
              /\ evs[k].tag = TagBacktrack =>
                     (evs[k].data = 0 \/ evs[k].data < PrecedingLevel(evs, k))
        /\ (\A i \in DOMAIN calls :
                calls[i].op \in {"push", "backtrack"} => calls[i].level >= 0) =>
              /\ \A k \in DOMAIN evs :
                     evs[k].tag \in LevelTags => evs[k].data >= 0
              /\ tracer.levelForAssert >= 0

\* C19 witness: the stream holds '>' 1, '>' 2 and a '<' below 2
C19_Witness ==
    LET evs == Events(tracer.traceFile, reserved)
    IN  /\ Len(evs) = 3
        /\ evs[1] = Ev(TagNewLevel, 1)
        /\ evs[2] = Ev(TagNewLevel, 2)
        /\ evs[3].tag = TagBacktrack
        /\ evs[3].data < 2

\* the number of events the accepted calls cs appended
RECURSIVE EventCount(_, _)
EventCount(cs, n) ==
    IF n = 0 THEN 0
    ELSE EventCount(cs, n - 1)
           + (IF cs[n].op = "learnt" THEN 2 + Len(cs[n].clause) ELSE 1)

\* C20: the trace stream length is headerSize + 5 * (number of events
\* appended so far), hence a multiple of 5; the k-th event (k >= 0) occupies
\* the bytes [headerSize + 5k, headerSize + 5k + 5) with its tag at the
\* first of them; the length is the same after finalize as before it.
C20_Length ==
    pc # "start" =>
        LET headerSize == writeHeader(NoTracer, TRUE, DummyRestarts).headerSize
            n == EventCount(calls, Len(calls))
            expected == ExpectedEvents(calls, Len(calls))
        IN  /\ Len(tracer.traceFile) = headerSize + 5 * n
            /\ Len(tracer.traceFile) % 5 = 0
            /\ Len(expected) = n
            /\ \A k \in 0 .. n - 1 :
                   /\ tracer.traceFile[headerSize + 5 * k + 1] = expected[k + 1].tag
                   /\ Int32Of(SubSeq(tracer.traceFile, headerSize + 5 * k + 2,
                                     headerSize + 5 * k + 5)) = expected[k + 1].data
            /\ (pc \in Finalized => HeaderSizeField(tracer.traceFile) = headerSize)

\* C20 witness: a finalized trace of a learnt clause with two literals and
\* one more event: five events, 35 bytes
C20_Witness ==
    /\ pc \in Finalized
    /\ EventCount(calls, Len(calls)) = 5
    /\ Len(tracer.traceFile) = 35

\* C15 as stated: a failure of the storage while opening or writing the
\* trace aborts tracing and is propagated to the caller: once the stream has
\* failed, no later recording call completes as if it had succeeded.
C15_FailureStopsTracing ==
    [][ tracer.traceBad => ~(nCalls' = nCalls + 1 /\ last'.ok) ]_vars

\* C16 as stated: in every state of the trace file, also when finalize was
\* cut short between its writes, the header region is the all-zero
\* placeholder or the complete final header: headerSize without the final
\* restart count is never in the file.
C16_HeaderNeverPartial ==
    (pc # "start" /\ Len(tracer.traceFile) >= reserved) =>
        \/ HeaderRegion(tracer.traceFile) = ZeroPlaceholder
        \/ /\ HeaderSizeField(tracer.traceFile) = reserved
           /\ RestartCountField(tracer.traceFile) = restartCalls

====
